---------------------------- MODULE Spec2Model ----------------------------
(***************************************************************************)
(* A model of panda/models/dataset.py: the Dataset record, its advisory    *)
(* lock (lock / unlock), the lock-guarded operations (import_data,         *)
(* reindex_data, export_data), the derivation of Solr column names and the *)
(* row-level operations that keep row_count in step with the Solr index.   *)
(*                                                                         *)
(* Every process (a web request, a task worker) holds its own in-memory    *)
(* instance of the Dataset (mem[p]); the database holds the persisted      *)
(* record (db).  Django's Model.save() of this code base writes every      *)
(* field of the instance, so a save makes db equal to the instance.        *)
(* Steps are cut at the interactions with the record store, the Solr       *)
(* index and the task queue; what a method does between two such           *)
(* interactions is local and belongs to one step.                          *)
(*                                                                         *)
(* A nullable value is NoneV (Python None) or Some(v).  Strings that the   *)
(* code takes apart (column names) are sequences of one-character strings. *)
(***************************************************************************)
EXTENDS Integers, Sequences, FiniteSets, TLC

(* ------------------------------ bounds -------------------------------- *)
\* Calls begun, over all processes, in one behaviour of the lifecycle
\* specification (each lock() takes one timestamp, so this bounds the
\* clock as well).
MaxCalls == 2
\* Calls begun by the single caller of the sequential specification.
MaxSoloCalls == 4
\* Lock/unlock cycles a dataset may have behind it when two lock() calls
\* race for it.
MaxPriorLocks == 3
\* Longest column schema drawn for the derivation of indexed names.
MaxCols == 3
\* Row-level calls begun in one behaviour of the row-level specification.
MaxRowCalls == 2

Procs == {"p1", "p2"}

NoneV == << >>
Some(v) == <<v>>
IsNone(o) == o = NoneV
Val(o) == o[1]

\* Python's "x or 0" for a nullable integer.
OrZero(o) == IF IsNone(o) THEN 0 ELSE Val(o)

\* The user on whose behalf a process calls (the ``user`` argument).
UserOf(p) == IF p = "p1" THEN "alice" ELSE "bob"

(* --------------------- strings as character sequences ----------------- *)
Lower(c) ==
    CASE c = "A" -> "a"
      [] c = "B" -> "b"
      [] OTHER -> c

\* unicodedata.normalize('NFKD', slug).encode('ascii', 'ignore') on one
\* character: an accented letter decomposes into its base letter and a
\* combining mark that the ASCII encoding drops; any other non-ASCII
\* character is dropped whole.  "e^" stands for the one character
\* e-acute, "~~" for a character with no ASCII decomposition.
AsciiFold(c) ==
    CASE c = "e^" -> <<"e">>
      [] c = "~~" -> << >>
      [] OTHER -> <<c>>

IsWordChar(c) == c \in {"a", "b", "e", "A", "B", "2", "3", "_"}
IsSpaceChar(c) == c = " "
IsHyphen(c) == c = "-"

RECURSIVE FlatMap(_, _)
FlatMap(Op(_), s) ==
    IF s = << >> THEN << >> ELSE Op(Head(s)) \o FlatMap(Op, Tail(s))

\* re.sub('[^\w\s-]', '', slug)
KeepSlugChars(s) ==
    SelectSeq(s, LAMBDA c : IsWordChar(c) \/ IsSpaceChar(c) \/ IsHyphen(c))

RECURSIVE LStrip(_)
LStrip(s) ==
    IF s # << >> /\ IsSpaceChar(Head(s)) THEN LStrip(Tail(s)) ELSE s

RECURSIVE RStrip(_)
RStrip(s) ==
    IF s # << >> /\ IsSpaceChar(s[Len(s)])
    THEN RStrip(SubSeq(s, 1, Len(s) - 1))
    ELSE s

\* str.strip()
Strip(s) == RStrip(LStrip(s))

\* str.lower()
LowerAll(s) == [i \in 1..Len(s) |-> Lower(s[i])]

\* re.sub('[-\s]+', '_', slug): every maximal run of hyphens and white
\* space becomes one underscore.
RECURSIVE CollapseRuns(_)
CollapseRuns(s) ==
    IF s = << >> THEN << >>
    ELSE IF IsSpaceChar(Head(s)) \/ IsHyphen(Head(s))
         THEN IF Len(s) > 1 /\ (IsSpaceChar(s[2]) \/ IsHyphen(s[2]))
              THEN CollapseRuns(Tail(s))
              ELSE <<"_">> \o CollapseRuns(Tail(s))
         ELSE <<Head(s)>> \o CollapseRuns(Tail(s))

\* The slug of a column name (the code adapted from Django's slugify).
Slugify(name) ==
    CollapseRuns(LowerAll(Strip(KeepSlugChars(FlatMap(AsciiFold, name)))))

DigitChar(d) ==
    CASE d = 0 -> "0" [] d = 1 -> "1" [] d = 2 -> "2" [] d = 3 -> "3"
      [] d = 4 -> "4" [] d = 5 -> "5" [] d = 6 -> "6" [] d = 7 -> "7"
      [] d = 8 -> "8" [] d = 9 -> "9"

\* '%i' % n for n >= 0
RECURSIVE Digits(_)
Digits(n) ==
    IF n < 10 THEN <<DigitChar(n)>>
    ELSE Digits(n \div 10) \o <<DigitChar(n % 10)>>

\* 'column_%s_%s' % (c['type'], slug)
TypedName(type, slug) ==
    <<"c", "o", "l", "u", "m", "n", "_">> \o type \o <<"_">> \o slug

InSeq(x, s) == \E i \in 1..Len(s) : s[i] = x

\* A slip: the suffix 2 is taken without looking whether it is free.
DedupNameOnce(name, n, taken) == name \o Digits(n)

\* test_name = '%s%i' % (name, n), n counted up from 2 until the name is
\* not among the names given so far.
RECURSIVE DedupName(_, _, _)
DedupName(name, n, taken) ==
    IF InSeq(Some(name \o Digits(n)), taken)
    THEN DedupName(name, n + 1, taken)
    ELSE name \o Digits(n)

\* One pass of the loop body of _generate_typed_column_names: the name
\* given to column c when typed_column_names is `taken`.
ColumnIndexedName(c, taken) ==
    IF ~c.indexed THEN NoneV
    ELSE LET name == TypedName(c.type, Slugify(c.name))
         IN  IF InSeq(Some(name), taken)
             THEN Some(DedupName(name, 2, taken))
             ELSE Some(name)

\* typed_column_names after the first k columns of the schema.
RECURSIVE TypedColumnNames(_, _)
TypedColumnNames(schema, k) ==
    IF k = 0 THEN << >>
    ELSE LET taken == TypedColumnNames(schema, k - 1)
         IN  Append(taken, ColumnIndexedName(schema[k], taken))

\* Dataset._generate_typed_column_names on a column_schema list: every
\* column's indexed_name is overwritten, in schema order.
GenerateTypedColumnNames(schema) ==
    LET names == TypedColumnNames(schema, Len(schema))
    IN  [i \in 1..Len(schema) |-> [schema[i] EXCEPT !.indexed_name = names[i]]]

(* --------------------------- the Dataset record ----------------------- *)
\* The uploads a caller may pass to import_data: what the upload resolver
\* yields for each (columns, guessed_types, sample_data, imported) and the
\* task type get_import_task_type_for_upload finds for it (NoneV: none).
TInt == <<"i", "n", "t">>
TUni == <<"u", "n", "i">>
ColA == <<"a">>
ColB == <<"b">>
ColC == <<"A", " ", "-", "2">>

MkUpload(id, cols, types, imported, task_type) ==
    [id |-> id, columns |-> cols, guessed_types |-> types,
     sample_data |-> <<id>>, imported |-> imported, task_type |-> task_type]

Uploads ==
    { MkUpload("u_ab", <<ColA, ColB>>, <<TInt, TUni>>, FALSE, Some("csv")),
      MkUpload("u_ac", <<ColA, ColC>>, <<TInt, TUni>>, FALSE, Some("csv")),
      MkUpload("u_ba", <<ColB, ColA>>, <<TUni, TInt>>, FALSE, Some("csv")),
      MkUpload("u_a", <<ColA>>, <<TInt>>, FALSE, Some("csv")),
      MkUpload("u_ab_done", <<ColA, ColB>>, <<TInt, TUni>>, TRUE, Some("csv")),
      MkUpload("u_ac_done", <<ColA, ColC>>, <<TInt, TUni>>, TRUE, Some("csv")),
      MkUpload("u_ac_pdf", <<ColA, ColC>>, <<TInt, TUni>>, FALSE, NoneV) }

\* The uploads the processes of the concurrent specification pass.
SharedUploads ==
    {u \in Uploads : u.id \in {"u_ab", "u_ac", "u_ac_done", "u_ac_pdf"}}

\* The arguments reindex_data is called with (NoneV: argument not given).
ReindexArgs ==
    [typed_columns |-> {NoneV, Some(<< >>), Some(<<TRUE>>), Some(<<TRUE, TRUE>>),
                        Some(<<FALSE, TRUE, TRUE>>)},
     column_types |-> {NoneV, Some(<<TUni>>), Some(<<TInt, TInt, TInt>>)}]

\* Those the processes of the concurrent specification pass.
SharedReindexArgs ==
    [typed_columns |-> {Some(<<TRUE, TRUE>>)},
     column_types |-> {NoneV, Some(<<TInt, TInt, TInt>>)}]

\* A Dataset as created and first saved: no schema, no data, unlocked.
NewDataset ==
    [column_schema |-> NoneV, sample_data |-> NoneV, row_count |-> NoneV,
     initial_upload |-> NoneV, current_task |-> NoneV,
     creation_date |-> Some(0),
     last_modified |-> NoneV, last_modification |-> NoneV,
     last_modified_by |-> NoneV,
     locked |-> FALSE, locked_at |-> NoneV]

VARIABLES
    db,          \* the persisted Dataset record
    mem,         \* mem[p]: the in-memory Dataset instance of process p
    pc,          \* pc[p]: where process p stands in the call it is running
    op,          \* op[p]: the method process p is running ("none": idle)
    loc,         \* loc[p]: the arguments and local variables of that call
    res,         \* res[p]: how p's last finished call ended
    clock,       \* the last timestamp datetime.now() has returned
    tasks,       \* the TaskStatus records created so far
    dispatched,  \* the tasks handed to the task queue (apply_async)
    idx,         \* the Solr data core: external_id -> data of this dataset
    calls,       \* calls[p]: the calls process p has begun so far
    h_idx,       \* history: idx before the index write of p's running call
    h_seen,      \* history: idx as the count or delete of p's running call left it
    h_probed,    \* history: some count query has been answered
    deleted,     \* the Dataset record has been deleted from the database
    catalog,     \* the Solr datasets core holds this dataset's document
    aborts,      \* the tasks whose abort has been requested
    purges,      \* the PurgeDataTasks queued and not yet run
    finished,    \* the dispatched tasks that have stopped running
    written      \* per import task at work, the rows it has written

vars == <<db, mem, pc, op, loc, res, clock, tasks, dispatched, idx, calls,
          h_idx, h_seen, h_probed, deleted, catalog, aborts, purges,
          finished, written>>

NoLocals ==
    [new_locked_at |-> NoneV, upload |-> NoneV, typed_columns |-> NoneV,
     column_types |-> NoneV, external_id |-> NoneV, data |-> NoneV,
     batch |-> NoneV, solr_rows |-> NoneV, old_row_count |-> NoneV]

Init ==
    /\ db = NewDataset
    /\ mem = [p \in Procs |-> NewDataset]
    /\ pc = [p \in Procs |-> "idle"]
    /\ op = [p \in Procs |-> "none"]
    /\ loc = [p \in Procs |-> NoLocals]
    /\ res = [p \in Procs |-> "none"]
    /\ clock = 0
    /\ tasks = {}
    /\ dispatched = {}
    /\ idx = << >>
    /\ calls = [p \in Procs |-> 0]
    /\ h_idx = [p \in Procs |-> << >>]
    /\ h_seen = [p \in Procs |-> << >>]
    /\ h_probed = FALSE
    /\ deleted = FALSE
    /\ catalog = TRUE
    /\ aborts = {}
    /\ purges = 0
    /\ finished = {}
    /\ written = << >>

\* Dataset.save: the creation date is set if it is missing, then every
\* field of the instance is written.  The result is the instance, which is
\* also the persisted record after the save.
Save(m, now) ==
    IF ~IsNone(m.creation_date) THEN m
    ELSE [m EXCEPT !.creation_date = Some(now)]

\* The first part of Dataset.lock: the lock fields are refreshed from the
\* persisted record.
RefreshLock(m, d) == [m EXCEPT !.locked = d.locked, !.locked_at = d.locked_at]

\* A slip: the first test of lock() is left out.
NeverLocked(m) == FALSE

\* "if self.locked:" in Dataset.lock, after the refresh.
AlreadyLocked(m) == m.locked

\* A slip: the token is not stored with the flag.
LockWrittenNoToken(m, new_locked_at) ==
    Save([m EXCEPT !.locked = TRUE], new_locked_at)

\* The write of Dataset.lock: locked and the new token are set and saved.
LockWritten(m, new_locked_at) ==
    Save([m EXCEPT !.locked = TRUE, !.locked_at = Some(new_locked_at)],
         new_locked_at)

\* "if self.locked_at != new_locked_at:" in Dataset.lock, after the second
\* refresh: somebody else got the lock.
LostRace(m, new_locked_at) == m.locked_at # Some(new_locked_at)

\* Dataset.unlock: locked is cleared and the instance saved.  The method
\* also sets self.lock_id = None; lock_id is no field of the record, so
\* the save does not write it and locked_at keeps its value.
UnlockedInstance(m, now) == Save([m EXCEPT !.locked = FALSE], now)

\* The calls begun so far, over all processes.
TotalCalls == calls["p1"] + calls["p2"]

\* Process p begins a call, if fewer than `limit` have been begun.
BeginCall(p, limit) ==
    /\ pc[p] = "idle"
    /\ TotalCalls < limit
    /\ calls' = [calls EXCEPT ![p] = @ + 1]

\* A call returns or raises: the process is idle again.
Finish(p, outcome) ==
    /\ pc' = [pc EXCEPT ![p] = "idle"]
    /\ op' = [op EXCEPT ![p] = "none"]
    /\ loc' = [loc EXCEPT ![p] = NoLocals]
    /\ res' = [res EXCEPT ![p] = outcome]

\* The body of a guarded operation that follows a successful lock().
BodyOf(o) ==
    CASE o = "import_data" -> "import_body"
      [] o = "reindex_data" -> "reindex_body"
      [] o = "export_data" -> "export_body"

\* A process fetches the Dataset from the database (objects.get).
Load(p) ==
    /\ pc[p] = "idle"
    /\ mem[p] # db
    /\ mem' = [mem EXCEPT ![p] = db]
    /\ UNCHANGED <<db, pc, op, loc, res, clock, tasks, dispatched, idx,
                   calls, h_idx, h_seen,
                   h_probed, deleted,
                   catalog, aborts, purges, finished, written>>

\* Entry of lock(), called on its own (o = "lock") or as the first
\* statement of a guarded operation: the first read and its test.
Enter(p, o, args, limit) ==
    /\ BeginCall(p, limit)
    /\ mem' = [mem EXCEPT ![p] = RefreshLock(mem[p], db)]
    /\ IF AlreadyLocked(mem'[p])
       THEN Finish(p, "DatasetLockedError")
       ELSE /\ pc' = [pc EXCEPT ![p] = "lock_write"]
            /\ op' = [op EXCEPT ![p] = o]
            /\ loc' = [loc EXCEPT ![p] = args]
            /\ res' = [res EXCEPT ![p] = "none"]
    /\ UNCHANGED <<db, clock, tasks, dispatched, idx, h_idx, h_seen,
                   h_probed, deleted,
                   catalog, aborts, purges, finished, written>>

LockBegin(p, limit) == Enter(p, "lock", NoLocals, limit)

ImportBegin(p, uploads, limit) ==
    \E u \in uploads :
        Enter(p, "import_data", [NoLocals EXCEPT !.upload = Some(u)], limit)

ReindexBegin(p, args, limit) ==
    \E tc \in args.typed_columns, ct \in args.column_types :
        Enter(p, "reindex_data",
              [NoLocals EXCEPT !.typed_columns = tc, !.column_types = ct],
              limit)

ExportBegin(p, limit) == Enter(p, "export_data", NoLocals, limit)

\* lock(): new_locked_at = datetime.now(); the lock fields are set and the
\* instance is saved.
LockWrite(p) ==
    /\ pc[p] = "lock_write"
    /\ clock' = clock + 1
    /\ loc' = [loc EXCEPT ![p].new_locked_at = Some(clock')]
    /\ mem' = [mem EXCEPT ![p] = LockWritten(mem[p], clock')]
    /\ db' = mem'[p]
    /\ pc' = [pc EXCEPT ![p] = "lock_check"]
    /\ UNCHANGED <<op, res, tasks, dispatched, idx, calls, h_idx, h_seen,
                   h_probed, deleted,
                   catalog, aborts, purges, finished, written>>

\* lock(): the record is read again and the token compared.
LockCheck(p) ==
    /\ pc[p] = "lock_check"
    /\ mem' = [mem EXCEPT ![p] = RefreshLock(mem[p], db)]
    /\ IF LostRace(mem'[p], Val(loc[p].new_locked_at))
       THEN Finish(p, "DatasetLockedError")
       ELSE IF op[p] = "lock"
            THEN Finish(p, "ok")
            ELSE /\ pc' = [pc EXCEPT ![p] = BodyOf(op[p])]
                 /\ UNCHANGED <<op, loc, res>>
    /\ UNCHANGED <<db, clock, tasks, dispatched, idx, calls, h_idx, h_seen,
                   h_probed, deleted,
                   catalog, aborts, purges, finished, written>>

\* unlock(), called on its own (by a task when it ends, or by any caller).
Unlock(p, limit) ==
    /\ BeginCall(p, limit)
    /\ mem' = [mem EXCEPT ![p] = UnlockedInstance(mem[p], clock)]
    /\ db' = mem'[p]
    /\ Finish(p, "unlocked")
    /\ UNCHANGED <<clock, tasks, dispatched, idx, h_idx, h_seen,
                   h_probed, deleted,
                   catalog, aborts, purges, finished, written>>

(* ------------------------ the guarded operations ---------------------- *)
\* Python truth of a column_schema: None and the empty list are false.
SchemaSet(m) == ~IsNone(m.column_schema) /\ Len(Val(m.column_schema)) > 0

\* [c['name'] for c in self.column_schema]
SchemaNames(m) ==
    [i \in 1..Len(Val(m.column_schema)) |-> Val(m.column_schema)[i].name]

\* A slip: the columns of the upload are not compared with the schema.
ImportCheckNoColumns(m, u) ==
    IF u.imported THEN "DataImportError: already imported"
    ELSE IF IsNone(u.task_type) THEN "DataImportError: file type not supported"
    ELSE "ok"

\* The checks of import_data, in the order the code makes them: the error
\* it raises, or "ok".
ImportCheck(m, u) ==
    IF u.imported THEN "DataImportError: already imported"
    ELSE IF IsNone(u.task_type) THEN "DataImportError: file type not supported"
    ELSE IF SchemaSet(m) /\ u.columns # SchemaNames(m)
         THEN "DataImportError: columns do not match"
    ELSE "ok"

\* The schema import_data builds from an upload.
SchemaFromUpload(u) ==
    [i \in 1..Len(u.columns) |->
        [name |-> u.columns[i], indexed |-> FALSE,
         type |-> u.guessed_types[i], indexed_name |-> NoneV,
         min |-> NoneV, max |-> NoneV]]

\* A slip: the sample data and the initial upload are always the upload's.
ImportPreparedOverwriting(m, u) ==
    LET m1 == IF SchemaSet(m) THEN m
              ELSE [m EXCEPT !.column_schema = Some(SchemaFromUpload(u))]
    IN  [m1 EXCEPT !.sample_data = Some(u.sample_data),
                   !.initial_upload = Some(u.id)]

\* What import_data sets on the instance once its checks have passed.
ImportPrepared(m, u) ==
    LET m1 == IF SchemaSet(m) THEN m
              ELSE [m EXCEPT !.column_schema = Some(SchemaFromUpload(u))]
        m2 == IF IsNone(m1.sample_data)
              THEN [m1 EXCEPT !.sample_data = Some(u.sample_data)]
              ELSE m1
    IN  IF IsNone(m2.initial_upload) /\ IsNone(m2.row_count)
        THEN [m2 EXCEPT !.initial_upload = Some(u.id)]
        ELSE m2

ArgGiven(arg) == ~IsNone(arg) /\ Len(Val(arg)) > 0

\* A slip: the first value is given to every column.
ApplyTypedColumnsToAll(cs, arg) ==
    IF ~ArgGiven(arg) THEN [schema |-> cs, err |-> "ok"]
    ELSE IF IsNone(cs) THEN [schema |-> cs, err |-> "TypeError"]
    ELSE LET s == Val(cs)
             a == Val(arg)
         IN  [schema |-> Some([i \in 1..Len(s) |->
                            [s[i] EXCEPT !.indexed = a[1]]]),
              err |-> IF Len(a) > Len(s) THEN "IndexError" ELSE "ok"]

\* "for i, t in enumerate(typed_columns): self.column_schema[i]['indexed']
\* = t": the schema after the loop and the error that ended it, if any.
\* Indexing None raises TypeError; a position past the end of the schema
\* raises IndexError after the earlier positions have been assigned.
ApplyTypedColumns(cs, arg) ==
    IF ~ArgGiven(arg) THEN [schema |-> cs, err |-> "ok"]
    ELSE IF IsNone(cs) THEN [schema |-> cs, err |-> "TypeError"]
    ELSE LET s == Val(cs)
             a == Val(arg)
         IN  [schema |-> Some([i \in 1..Len(s) |->
                            IF i <= Len(a) THEN [s[i] EXCEPT !.indexed = a[i]]
                            ELSE s[i]]),
              err |-> IF Len(a) > Len(s) THEN "IndexError" ELSE "ok"]

\* The same loop for column_types and c['type'].
ApplyColumnTypes(cs, arg) ==
    IF ~ArgGiven(arg) THEN [schema |-> cs, err |-> "ok"]
    ELSE IF IsNone(cs) THEN [schema |-> cs, err |-> "TypeError"]
    ELSE LET s == Val(cs)
             a == Val(arg)
         IN  [schema |-> Some([i \in 1..Len(s) |->
                            IF i <= Len(a) THEN [s[i] EXCEPT !.type = a[i]]
                            ELSE s[i]]),
              err |-> IF Len(a) > Len(s) THEN "IndexError" ELSE "ok"]

\* reindex_data up to and including _generate_typed_column_names: the
\* instance and the error raised on the way, if any.  Enumerating a
\* column_schema of None raises TypeError.
ReindexPrepared(m, tc, ct) ==
    LET r1 == ApplyTypedColumns(m.column_schema, tc)
        r2 == IF r1.err = "ok" THEN ApplyColumnTypes(r1.schema, ct) ELSE r1
    IN  IF r2.err # "ok"
        THEN [m |-> [m EXCEPT !.column_schema = r2.schema], err |-> r2.err]
        ELSE IF IsNone(r2.schema) THEN [m |-> m, err |-> "TypeError"]
        ELSE [m |-> [m EXCEPT !.column_schema =
                        Some(GenerateTypedColumnNames(Val(r2.schema)))],
              err |-> "ok"]

\* A variant: the record is unlocked as it is persisted, the instance as
\* the body left it is dropped.
FailRestoring(p, m, err) ==
    /\ mem' = [mem EXCEPT ![p] = UnlockedInstance(db, clock)]
    /\ db' = mem'[p]
    /\ Finish(p, err)

\* A slip: the error is re-raised without the unlock.
FailKeepsLock(p, m, err) ==
    /\ mem' = [mem EXCEPT ![p] = m]
    /\ db' = db
    /\ Finish(p, err)

\* "except: self.unlock(); raise" of a guarded operation, reached with the
\* instance as the body left it.
Fail(p, m, err) ==
    /\ mem' = [mem EXCEPT ![p] = UnlockedInstance(m, clock)]
    /\ db' = mem'[p]
    /\ Finish(p, err)

\* self.current_task = TaskStatus.objects.create(task_name=..., creator=user)
\* The create may fail (the record store raises).
CreateTask(p, m, task_name) ==
    \E created \in BOOLEAN :
        IF created
        THEN LET id == Cardinality(tasks) + 1
             IN  /\ tasks' = tasks \cup {[id |-> id, task_name |-> task_name]}
                 /\ mem' = [mem EXCEPT ![p] = [m EXCEPT !.current_task = Some(id)]]
                 /\ pc' = [pc EXCEPT ![p] = "op_save"]
                 /\ UNCHANGED <<db, op, loc, res>>
        ELSE /\ Fail(p, m, "DatabaseError")
             /\ UNCHANGED tasks

ImportBody(p) ==
    /\ pc[p] = "import_body"
    /\ LET u == Val(loc[p].upload)
           err == ImportCheck(mem[p], u)
       IN  IF err # "ok"
           THEN Fail(p, mem[p], err) /\ UNCHANGED tasks
           ELSE CreateTask(p, ImportPrepared(mem[p], u), Val(u.task_type))
    /\ UNCHANGED <<clock, dispatched, idx, calls, h_idx, h_seen,
                   h_probed, deleted,
                   catalog, aborts, purges, finished, written>>

ReindexBody(p) ==
    /\ pc[p] = "reindex_body"
    /\ LET r == ReindexPrepared(mem[p], loc[p].typed_columns, loc[p].column_types)
       IN  IF r.err # "ok"
           THEN Fail(p, r.m, r.err) /\ UNCHANGED tasks
           ELSE CreateTask(p, r.m, "panda.tasks.reindex")
    /\ UNCHANGED <<clock, dispatched, idx, calls, h_idx, h_seen,
                   h_probed, deleted,
                   catalog, aborts, purges, finished, written>>

ExportBody(p) ==
    /\ pc[p] = "export_body"
    /\ CreateTask(p, mem[p], "panda.tasks.export.csv")
    /\ UNCHANGED <<clock, dispatched, idx, calls, h_idx, h_seen,
                   h_probed, deleted,
                   catalog, aborts, purges, finished, written>>

\* A slip: the task is dispatched without the instance being saved.
OpSaveSkipped(p) ==
    /\ pc[p] = "op_save"
    /\ pc' = [pc EXCEPT ![p] = "op_dispatch"]
    /\ UNCHANGED <<db, mem, op, loc, res, clock, tasks, dispatched, idx, calls,
                   h_idx, h_seen, h_probed, deleted, catalog, aborts, purges,
                   finished, written>>

\* self.save() of a guarded operation; the save may fail.
OpSave(p) ==
    /\ pc[p] = "op_save"
    /\ \E saved \in BOOLEAN :
        IF saved
        THEN /\ mem' = [mem EXCEPT ![p] = Save(mem[p], clock)]
             /\ db' = mem'[p]
             /\ pc' = [pc EXCEPT ![p] = "op_dispatch"]
             /\ UNCHANGED <<op, loc, res>>
        ELSE Fail(p, mem[p], "DatabaseError")
    /\ UNCHANGED <<clock, tasks, dispatched, idx, calls, h_idx, h_seen,
                   h_probed, deleted,
                   catalog, aborts, purges, finished, written>>

\* task_type.apply_async(..., task_id=self.current_task.id); the hand-over
\* to the queue may fail.
OpDispatch(p) ==
    /\ pc[p] = "op_dispatch"
    /\ \E queued \in BOOLEAN :
        IF queued
        THEN /\ dispatched' = dispatched \cup
                    {[task_id |-> Val(mem[p].current_task),
                      upload |-> IF IsNone(loc[p].upload) THEN NoneV
                                 ELSE Some(Val(loc[p].upload).id)]}
             /\ Finish(p, "ok")
             /\ UNCHANGED <<db, mem>>
        ELSE /\ Fail(p, mem[p], "QueueError")
             /\ UNCHANGED dispatched
    /\ UNCHANGED <<clock, tasks, idx, calls, h_idx, h_seen,
                   h_probed, deleted,
                   catalog, aborts, purges, finished, written>>

(* --------------------------- specifications --------------------------- *)
\* The lifecycle of one dataset under two processes: lock, unlock and the
\* guarded operations, interleaved at every store interaction.
Next ==
    \E p \in Procs :
        \/ Load(p)
        \/ LockBegin(p, MaxCalls)
        \/ ImportBegin(p, SharedUploads, MaxCalls)
        \/ ReindexBegin(p, SharedReindexArgs, MaxCalls)
        \/ ExportBegin(p, MaxCalls)
        \/ LockWrite(p)
        \/ LockCheck(p)
        \/ Unlock(p, MaxCalls)
        \/ ImportBody(p)
        \/ ReindexBody(p)
        \/ ExportBody(p)
        \/ OpSave(p)
        \/ OpDispatch(p)

Spec == Init /\ [][Next]_vars

\* Two processes each call lock() once on an unlocked dataset.  The
\* dataset is new, or has been locked and unlocked before (unlock leaves
\* locked_at in place); a process holds the current record or the one it
\* fetched when the dataset was new.
RaceStarts ==
    {[db |-> NewDataset, clock |-> 0]} \cup
    {[db |-> [NewDataset EXCEPT !.locked_at = Some(k)], clock |-> k] :
        k \in 1..MaxPriorLocks}

InitRace ==
    \E s \in RaceStarts :
        /\ db = s.db
        /\ clock = s.clock
        /\ mem \in [Procs -> {s.db, NewDataset}]
        /\ pc = [p \in Procs |-> "idle"]
        /\ op = [p \in Procs |-> "none"]
        /\ loc = [p \in Procs |-> NoLocals]
        /\ res = [p \in Procs |-> "none"]
        /\ tasks = {}
        /\ dispatched = {}
        /\ idx = << >>
        /\ calls = [p \in Procs |-> 0]
        /\ h_idx = [p \in Procs |-> << >>]
        /\ h_seen = [p \in Procs |-> << >>]
        /\ h_probed = FALSE
        /\ deleted = FALSE
        /\ catalog = TRUE
        /\ aborts = {}
        /\ purges = 0
        /\ finished = {}
        /\ written = << >>

NextRace ==
    \E p \in Procs :
        \/ calls[p] = 0 /\ LockBegin(p, Cardinality(Procs))
        \/ LockWrite(p)
        \/ LockCheck(p)

SpecRace == InitRace /\ [][NextRace]_vars

\* One caller alone: every call runs to its end before the next begins
\* and nobody else touches the dataset.
Caller == "p1"

NextSolo ==
    \/ LockBegin(Caller, MaxSoloCalls)
    \/ ImportBegin(Caller, Uploads, MaxSoloCalls)
    \/ ReindexBegin(Caller, ReindexArgs, MaxSoloCalls)
    \/ ExportBegin(Caller, MaxSoloCalls)
    \/ LockWrite(Caller)
    \/ LockCheck(Caller)
    \/ Unlock(Caller, MaxSoloCalls)
    \/ ImportBody(Caller)
    \/ ReindexBody(Caller)
    \/ ExportBody(Caller)
    \/ OpSave(Caller)
    \/ OpDispatch(Caller)

SpecSolo == Init /\ [][NextSolo]_vars

\* The derivation of indexed names on every schema of up to MaxCols
\* columns: the caller's instance starts with any such schema, no column
\* named yet, and _generate_typed_column_names is run on it, again and
\* again.
ColumnNames ==
    {<<"a">>, <<"a", "2">>, <<"A", "!">>, <<" ", "a", "-", " ", "2">>, <<"~~">>}
ColumnTypes == {TInt, TUni}

Columns ==
    [name : ColumnNames, indexed : BOOLEAN, type : ColumnTypes,
     indexed_name : {NoneV}, min : {NoneV}, max : {NoneV}]

Schemas == UNION {[1..n -> Columns] : n \in 0..MaxCols}

InitNames ==
    /\ \E s \in Schemas :
        mem = [p \in Procs |->
                 IF p = Caller THEN [NewDataset EXCEPT !.column_schema = Some(s)]
                 ELSE NewDataset]
    /\ db = NewDataset
    /\ pc = [p \in Procs |-> "idle"]
    /\ op = [p \in Procs |-> "none"]
    /\ loc = [p \in Procs |-> NoLocals]
    /\ res = [p \in Procs |-> "none"]
    /\ clock = 0
    /\ tasks = {}
    /\ dispatched = {}
    /\ idx = << >>
    /\ calls = [p \in Procs |-> 0]
    /\ h_idx = [p \in Procs |-> << >>]
    /\ h_seen = [p \in Procs |-> << >>]
    /\ h_probed = FALSE
    /\ deleted = FALSE
    /\ catalog = TRUE
    /\ aborts = {}
    /\ purges = 0
    /\ finished = {}
    /\ written = << >>

GenerateNames ==
    /\ mem' = [mem EXCEPT ![Caller].column_schema =
                  Some(GenerateTypedColumnNames(Val(@)))]
    /\ res' = [res EXCEPT ![Caller] = "ok"]
    /\ UNCHANGED <<db, pc, op, loc, clock, tasks, dispatched, idx, calls,
                   h_idx, h_seen,
                   h_probed, deleted,
                   catalog, aborts, purges, finished, written>>

SpecNames == InitNames /\ [][GenerateNames]_vars

(* ------------------------- row-level operations ----------------------- *)
\* The most rows kept in sample_data.
SampleLimit == 5

\* The external ids and rows the callers pass.
ExternalIds == {"x", "y"}
RowData == {"d1", "d2"}

\* The index engine (the Solr data core, narrowed to this dataset's slug):
\* a map from document key to row.  A new dataset has no documents.
EmptyIndex == << >>

\* The key a document gets when the caller gives no external id: the i-th
\* row of the c-th call gets a key of its own.
GeneratedKey(c, i) == "g" \o ToString(c) \o "." \o ToString(i)

\* utils.solr.make_data_row: one document, keyed by the external id, or by
\* a generated key if there is none.
MakeDataRow(data, external_id, generated) ==
    [key |-> IF IsNone(external_id) THEN generated ELSE Val(external_id),
     data |-> data]

\* solr.add of one document: an overwrite by key.
IndexUpsert(ix, row) ==
    [k \in DOMAIN ix \cup {row.key} |->
        IF k = row.key THEN row.data ELSE ix[k]]

\* solr.add(core, documents, commit=True): the documents in order.
RECURSIVE IndexAdd(_, _)
IndexAdd(ix, rows) ==
    IF Len(rows) = 0 THEN ix
    ELSE IndexAdd(IndexUpsert(ix, Head(rows)), Tail(rows))

\* solr.delete(core, 'dataset_slug:... AND external_id:...', commit=True).
IndexDelete(ix, external_id) ==
    IF DOMAIN ix \ {external_id} = {} THEN EmptyIndex
    ELSE [k \in DOMAIN ix \ {external_id} |-> ix[k]]

\* solr.delete(core, 'dataset_slug:...', commit=True).
IndexDeleteAll(ix) == EmptyIndex

\* numFound of solr.query(core, 'dataset_slug:...').
NumFound(ix) == Cardinality(DOMAIN ix)

\* "if not self.sample_data: self.sample_data = []".
SampleOf(m) == IF IsNone(m.sample_data) THEN << >> ELSE Val(m.sample_data)

\* The sample_data part of add_row.
AddRowSampled(m, data) ==
    LET s == SampleOf(m)
    IN [m EXCEPT !.sample_data =
            Some(IF Len(s) < SampleLimit THEN Append(s, data) ELSE s)]

\* A slip: the whole batch is appended, not data[:needed].
AddManyRowsSampledWhole(m, data) ==
    LET s == SampleOf(m)
    IN [m EXCEPT !.sample_data =
            Some(IF Len(s) < SampleLimit
                 THEN s \o [i \in 1..Len(data) |-> data[i][1]]
                 ELSE s)]

\* The sample_data part of add_many_rows: data[:needed] is appended.
AddManyRowsSampled(m, data) ==
    LET s == SampleOf(m)
        needed == SampleLimit - Len(s)
        taken == IF Len(data) < needed THEN Len(data) ELSE needed
    IN [m EXCEPT !.sample_data =
            Some(IF Len(s) < SampleLimit
                 THEN s \o [i \in 1..taken |-> data[i][1]]
                 ELSE s)]

\* A slip: add_row counts the row instead of asking the index.
AddRowCountedBlindly(m, data, count, user, now) ==
    [AddRowSampled(m, data) EXCEPT
        !.row_count = Some(OrZero(m.row_count) + 1),
        !.last_modified = Some(now),
        !.last_modified_by = Some(user),
        !.last_modification = Some("1 row added")]

\* add_row from the answer of the count query to the save: the instance
\* as it is saved.
AddRowCounted(m, data, count, user, now) ==
    LET old_row_count == m.row_count
        added == count - OrZero(old_row_count)
    IN [AddRowSampled(m, data) EXCEPT
           !.row_count = Some(count),
           !.last_modified = Some(now),
           !.last_modified_by = Some(user),
           !.last_modification =
               Some("1 row " \o (IF added # 0 THEN "added" ELSE "updated"))]

\* '%i rows added and %i updated', '%i rows added', '%i rows updated'.
ManyRowsMessage(added, updated) ==
    IF added # 0 /\ updated # 0
    THEN ToString(added) \o " rows added and " \o ToString(updated)
             \o " updated"
    ELSE IF added # 0 THEN ToString(added) \o " rows added"
    ELSE ToString(updated) \o " rows updated"

\* A slip: every row of the batch is reported as updated.
AddManyRowsCountedAllUpdated(m, data, count, user, now) ==
    [AddManyRowsSampled(m, data) EXCEPT
        !.row_count = Some(count),
        !.last_modified = Some(now),
        !.last_modified_by = Some(user),
        !.last_modification =
            Some(ManyRowsMessage(count - OrZero(m.row_count), Len(data)))]

\* A slip: the old row_count is not subtracted.
AddManyRowsCountedFromZero(m, data, count, user, now) ==
    LET added == count
        updated == Len(data) - added
    IN [AddManyRowsSampled(m, data) EXCEPT
           !.row_count = Some(count),
           !.last_modified = Some(now),
           !.last_modified_by = Some(user),
           !.last_modification = Some(ManyRowsMessage(added, updated))]

\* add_many_rows from the answer of the count query to the save.
AddManyRowsCounted(m, data, count, user, now) ==
    LET old_row_count == m.row_count
        added == count - OrZero(old_row_count)
        updated == Len(data) - added
    IN [AddManyRowsSampled(m, data) EXCEPT
           !.row_count = Some(count),
           !.last_modified = Some(now),
           !.last_modified_by = Some(user),
           !.last_modification = Some(ManyRowsMessage(added, updated))]

\* A slip: delete_row takes one off the count instead of asking the index.
DeleteRowCountedBlindly(m, count, user, now) ==
    [m EXCEPT !.row_count = Some(OrZero(m.row_count) - 1),
              !.last_modified = Some(now),
              !.last_modified_by = Some(user),
              !.last_modification = Some("1 row deleted")]

\* delete_row from the answer of the count query to the save.
DeleteRowCounted(m, count, user, now) ==
    [m EXCEPT !.row_count = Some(count),
              !.last_modified = Some(now),
              !.last_modified_by = Some(user),
              !.last_modification = Some("1 row deleted")]

\* delete_all_rows after the delete, up to the message: row_count and
\* last_modified are set (last_modified_by is not).
DeleteAllRowsZeroed(m, now) ==
    [m EXCEPT !.row_count = Some(0), !.last_modified = Some(now)]

\* 'All %i rows deleted' % old_row_count, for an integer old_row_count.
DeleteAllRowsMessage(old_row_count) ==
    "All " \o ToString(old_row_count) \o " rows deleted"

\* The batches add_many_rows is called with, each a sequence of tuples
\* (data, external_id): empty, one row, two ids, the same id twice, an id
\* and a row without one, and three rows.
RowBatches ==
    { << >>,
      << <<"d1", Some("x")>> >>,
      << <<"d1", Some("x")>>, <<"d2", Some("y")>> >>,
      << <<"d1", Some("x")>>, <<"d2", Some("x")>> >>,
      << <<"d2", Some("y")>>, <<"d1", NoneV>> >>,
      << <<"d2", Some("y")>>, <<"d1", Some("x")>>, <<"d1", NoneV>> >> }

\* A row-level call begins with its write to the index: the call's
\* arguments and documents are its locals, the index becomes ix.
RowEnter(p, o, args, ix, next, limit) ==
    /\ BeginCall(p, limit)
    /\ idx' = ix
    /\ h_idx' = [h_idx EXCEPT ![p] = idx]
    /\ h_seen' = [h_seen EXCEPT ![p] = ix]
    /\ pc' = [pc EXCEPT ![p] = next]
    /\ op' = [op EXCEPT ![p] = o]
    /\ loc' = [loc EXCEPT ![p] = args]
    /\ UNCHANGED <<db, mem, res, clock, tasks, dispatched, h_probed, deleted,
                   catalog, aborts, purges, finished, written>>

\* add_row up to solr.add.
AddRowBegin(p, limit) ==
    \E data \in RowData, external_id \in {NoneV} \cup {Some(e) : e \in ExternalIds} :
        LET solr_row ==
                MakeDataRow(data, external_id, GeneratedKey(TotalCalls + 1, 1))
        IN RowEnter(p, "add_row",
                    [NoLocals EXCEPT !.data = Some(data),
                                     !.external_id = external_id,
                                     !.solr_rows = <<solr_row>>],
                    IndexAdd(idx, <<solr_row>>), "row_count", limit)

\* add_many_rows up to solr.add.
AddManyRowsBegin(p, batches, limit) ==
    \E data \in batches :
        LET solr_rows ==
                [i \in 1..Len(data) |->
                    MakeDataRow(data[i][1], data[i][2],
                                GeneratedKey(TotalCalls + 1, i))]
        IN RowEnter(p, "add_many_rows",
                    [NoLocals EXCEPT !.batch = Some(data),
                                     !.solr_rows = solr_rows],
                    IndexAdd(idx, solr_rows), "row_count", limit)

\* delete_row up to solr.delete.
DeleteRowBegin(p, limit) ==
    \E external_id \in ExternalIds :
        RowEnter(p, "delete_row",
                 [NoLocals EXCEPT !.external_id = Some(external_id)],
                 IndexDelete(idx, external_id), "row_count", limit)

\* delete_all_rows up to solr.delete.
DeleteAllRowsBegin(p, limit) ==
    RowEnter(p, "delete_all_rows", NoLocals, IndexDeleteAll(idx),
             "delete_all_save", limit)

\* The instance of process p once _count_rows has answered count.
Counted(p, count, now) ==
    CASE op[p] = "add_row" ->
            AddRowCounted(mem[p], Val(loc[p].data), count, UserOf(p), now)
      [] op[p] = "add_many_rows" ->
            AddManyRowsCounted(mem[p], Val(loc[p].batch), count, UserOf(p),
                               now)
      [] op[p] = "delete_row" ->
            DeleteRowCounted(mem[p], count, UserOf(p), now)

\* add_row, add_many_rows and delete_row from the count query
\* (_count_rows) up to the save: the instance's fields are set.
RowCount(p) ==
    /\ pc[p] = "row_count"
    /\ clock' = clock + 1
    /\ mem' = [mem EXCEPT ![p] = Counted(p, NumFound(idx), clock')]
    /\ loc' = [loc EXCEPT ![p].old_row_count = mem[p].row_count]
    /\ pc' = [pc EXCEPT ![p] = "row_save"]
    /\ h_seen' = [h_seen EXCEPT ![p] = idx]
    /\ h_probed' = TRUE
    /\ UNCHANGED <<db, op, res, tasks, dispatched, idx, calls, h_idx, deleted,
                   catalog, aborts, purges, finished, written>>

\* The save that ends add_row, add_many_rows and delete_row.
RowSave(p) ==
    /\ pc[p] = "row_save"
    /\ mem' = [mem EXCEPT ![p] = Save(mem[p], clock)]
    /\ db' = mem'[p]
    /\ Finish(p, "ok")
    /\ h_idx' = [h_idx EXCEPT ![p] = EmptyIndex]
    /\ h_seen' = [h_seen EXCEPT ![p] = EmptyIndex]
    /\ UNCHANGED <<clock, tasks, dispatched, idx, calls, h_probed, deleted,
                   catalog, aborts, purges, finished, written>>

\* delete_all_rows after the delete: the message cannot be formatted when
\* the instance's row_count is None ('%i' % None raises TypeError, after
\* row_count and last_modified have been set on the instance and before
\* the save); otherwise the instance is saved.
DeleteAllRowsSave(p) ==
    /\ pc[p] = "delete_all_save"
    /\ clock' = clock + 1
    /\ LET old_row_count == mem[p].row_count
           m == DeleteAllRowsZeroed(mem[p], clock')
       IN IF IsNone(old_row_count)
          THEN /\ mem' = [mem EXCEPT ![p] = m]
               /\ Finish(p, "TypeError")
               /\ UNCHANGED db
          ELSE /\ mem' = [mem EXCEPT ![p] =
                             Save([m EXCEPT !.last_modification =
                                       Some(DeleteAllRowsMessage(Val(old_row_count)))],
                                  clock')]
               /\ db' = mem'[p]
               /\ Finish(p, "ok")
    /\ h_idx' = [h_idx EXCEPT ![p] = EmptyIndex]
    /\ h_seen' = [h_seen EXCEPT ![p] = EmptyIndex]
    /\ UNCHANGED <<tasks, dispatched, idx, calls, h_probed, deleted,
                   catalog, aborts, purges, finished, written>>

\* The row-level operations of two processes on one dataset, interleaved
\* at every interaction with the index and the database.  They take no
\* lock.
NextRows ==
    \E p \in Procs :
        \/ Load(p)
        \/ AddRowBegin(p, MaxRowCalls)
        \/ AddManyRowsBegin(p, RowBatches, MaxRowCalls)
        \/ DeleteRowBegin(p, MaxRowCalls)
        \/ DeleteAllRowsBegin(p, MaxRowCalls)
        \/ RowCount(p)
        \/ RowSave(p)
        \/ DeleteAllRowsSave(p)

SpecRows == Init /\ [][NextRows]_vars

(* ------------------------------ claims -------------------------------- *)
AllDone == \A p \in Procs : pc[p] = "idle" /\ calls[p] = 1

\* C1: when two processes each run lock() on an unlocked dataset, then
\* whatever the interleaving of their reads and writes, once both calls
\* have ended exactly one has returned and the other has raised
\* DatasetLockedError.
C1_ExactlyOneWinner ==
    AllDone => Cardinality({p \in Procs : res[p] = "ok"}) = 1

GuardedPcs ==
    {"import_body", "reindex_body", "export_body", "op_save", "op_dispatch"}

\* Process p's call ends with an error in this step, after its lock() had
\* returned.
RaisesAfterLock(p) ==
    pc[p] \in GuardedPcs /\ pc'[p] = "idle" /\ res'[p] # "ok"

StartsLocking(p) ==
    pc[p] = "idle" /\ calls'[p] = calls[p] + 1 /\ res'[p] # "unlocked"

\* C3: a lock(), import_data, reindex_data or export_data begun while the
\* persisted record is locked raises DatasetLockedError and changes
\* nothing: the persisted record stays as it is, no TaskStatus is created
\* and no task is dispatched.
C3_LockedRejects ==
    [][\A p \in Procs :
        (StartsLocking(p) /\ db.locked) =>
            /\ pc'[p] = "idle"
            /\ res'[p] = "DatasetLockedError"
            /\ db' = db
            /\ tasks' = tasks
            /\ dispatched' = dispatched]_vars

\* One process holds the lock after a finished call (it wrote the only
\* token issued) and the other was turned away at the door.
C3_Witness ==
    \E p, q \in Procs :
        /\ pc[p] = "idle" /\ pc[q] = "idle"
        /\ res[p] = "ok"
        /\ res[q] = "DatasetLockedError"
        /\ db.locked
        /\ clock = 1

\* C4: for a single caller, a lock() (alone or opening a guarded
\* operation) begun while the dataset is unlocked succeeds and leaves it
\* locked, one begun while it is locked fails with DatasetLockedError, and
\* unlock() leaves it unlocked; so lock, lock, unlock, lock goes succeed,
\* fail, succeed, however often the cycle is repeated.
C4_LockUnlockCycle ==
    [][\A p \in Procs :
        /\ (StartsLocking(p) /\ db.locked) =>
                (pc'[p] = "idle" /\ res'[p] = "DatasetLockedError")
        /\ (StartsLocking(p) /\ ~db.locked) => pc'[p] = "lock_write"
        /\ pc[p] = "lock_write" => pc'[p] \in {"lock_write", "lock_check"}
        /\ (pc[p] = "lock_check" /\ pc'[p] # "lock_check") =>
                /\ db'.locked
                /\ IF op[p] = "lock" THEN pc'[p] = "idle" /\ res'[p] = "ok"
                   ELSE pc'[p] = BodyOf(op[p])
        /\ (pc[p] = "idle" /\ res'[p] = "unlocked" /\ calls'[p] # calls[p]) =>
                ~db'.locked]_vars

\* A second lock() has succeeded: the first was released in between.
C4_Witness ==
    /\ pc[Caller] = "idle"
    /\ res[Caller] = "ok"
    /\ db.locked
    /\ clock = 2
    /\ tasks = {}

\* Process p runs unlock() in this step.
Unlocks(p) ==
    pc[p] = "idle" /\ calls'[p] = calls[p] + 1 /\ res'[p] = "unlocked"

\* C5: unlock() sets the persisted locked to false and clears the lock
\* token (locked_at becomes absent), whether or not the dataset was
\* locked.
C5_UnlockClearsToken ==
    [][\A p \in Procs :
        Unlocks(p) => (~db'.locked /\ IsNone(db'.locked_at))]_vars

\* Process p runs the checks of import_data in this step, on an instance
\* whose schema is set and an upload whose columns differ from it.
ChecksMismatchedImport(p) ==
    /\ pc[p] = "import_body"
    /\ pc'[p] # "import_body"
    /\ SchemaSet(mem[p])
    /\ Val(loc[p].upload).columns # SchemaNames(mem[p])

RejectedAsMismatch(p) ==
    /\ pc'[p] = "idle"
    /\ res'[p] = "DataImportError: columns do not match"
    /\ dispatched' = dispatched
    /\ tasks' = tasks
    /\ mem'[p].column_schema = mem[p].column_schema
    /\ db'.column_schema = mem[p].column_schema
    /\ ~db'.locked

\* C6 as claimed: import_data (its lock acquired) on a dataset with a
\* schema and an upload whose column names differ from the schema's names
\* raises the schema-mismatch error, dispatches nothing, leaves
\* column_schema as it was and the persisted dataset unlocked.
C6_MismatchAlwaysReported ==
    [][\A p \in Procs : ChecksMismatchedImport(p) => RejectedAsMismatch(p)]_vars

\* C6 as amended: the same, for an upload that has not been imported yet
\* and whose file type has an import task (the code checks those two
\* first and raises their errors instead).
C6_MismatchRejected ==
    [][\A p \in Procs :
        (/\ ChecksMismatchedImport(p)
         /\ ~Val(loc[p].upload).imported
         /\ ~IsNone(Val(loc[p].upload).task_type)) =>
            RejectedAsMismatch(p)]_vars

C6_Witness ==
    /\ pc[Caller] = "idle"
    /\ res[Caller] = "DataImportError: columns do not match"
    /\ SchemaSet(db)
    /\ ~db.locked

\* The indexed columns of a schema carry pairwise distinct names and the
\* others none.
NamesDistinct(s) ==
    /\ \A i \in 1..Len(s) : s[i].indexed <=> ~IsNone(s[i].indexed_name)
    /\ \A i, j \in 1..Len(s) :
        (i # j /\ s[i].indexed /\ s[j].indexed) =>
            s[i].indexed_name # s[j].indexed_name

\* C7: for every ordered schema, _generate_typed_column_names gives the
\* indexed columns pairwise distinct indexed_names (and the others none),
\* and running it again on its result changes no indexed_name.
C7_IndexedNamesUnique ==
    res[Caller] = "ok" =>
        LET s == Val(mem[Caller].column_schema)
        IN  /\ NamesDistinct(s)
            /\ GenerateTypedColumnNames(s) = s

\* Names a, a2, a of one type, all indexed: the second a collides with
\* the first, and its first candidate a2 with the second column.
C7_Witness ==
    /\ res[Caller] = "ok"
    /\ LET s == Val(mem[Caller].column_schema)
       IN  /\ Len(s) = 3
           /\ s[1].name = <<"a">> /\ s[2].name = <<"a", "2">> /\ s[3].name = <<"a">>
           /\ \A i \in 1..3 : s[i].indexed /\ s[i].type = TInt
           /\ s[3].indexed_name = Some(TypedName(TInt, <<"a", "3">>))


\* No row-level operation is in progress.
RowsQuiet == \A p \in Procs : pc[p] = "idle"

\* C8: at every moment when no row-level operation is in progress, after
\* any sequence of add_row, add_many_rows, delete_row and delete_all_rows
\* calls of two processes, interleaved or not, the persisted row_count is
\* null with no count query ever answered, or it equals the number of
\* documents the index holds.
C8_RowCountMatchesIndex ==
    RowsQuiet =>
        \/ IsNone(db.row_count) /\ ~h_probed
        \/ db.row_count = Some(NumFound(idx))

\* Process p returns from a row-level call in this step (it has saved).
RowCallReturns(p) ==
    pc[p] \in {"row_save", "delete_all_save"} /\ pc'[p] = "idle"
        /\ res'[p] = "ok"

\* C8 as amended: when a row-level call returns, and no other process has
\* changed the index between the call's count query (for delete_all_rows,
\* its delete) and its save, the persisted row_count equals the number of
\* documents the index holds at that moment.
C8_ReturnedCallCounts ==
    [][\A p \in Procs :
          (RowCallReturns(p) /\ idx = h_seen[p])
              => db'.row_count = Some(NumFound(idx'))]_vars

\* Both processes have made a row-level call, one after the other, the
\* second on the copy it held from the start; the last one has returned,
\* two documents are in the index and row_count says so.
C8_Witness ==
    /\ RowsQuiet
    /\ calls = [p \in Procs |-> 1]
    /\ \A p \in Procs : res[p] = "ok"
    /\ NumFound(idx) = 2
    /\ db.row_count = Some(2)
    /\ \E p \in Procs : IsNone(mem[p].sample_data) \/ Len(Val(mem[p].sample_data)) = 1

\* Process p saves at the end of the named row-level call in this step.
RowCallSaves(p, o) == op[p] = o /\ pc[p] = "row_save" /\ pc'[p] = "idle"

\* The running add_row of p was given an external id; every row of the
\* batch of its running add_many_rows has one.
ExternalIdGiven(p) == ~IsNone(loc[p].external_id)
ExternalIdsGiven(p) ==
    \A i \in DOMAIN Val(loc[p].batch) : ~IsNone(Val(loc[p].batch)[i][2])

\* The keys of the documents process p has written in its running call.
KeysWritten(p) == {loc[p].solr_rows[i].key : i \in DOMAIN loc[p].solr_rows}

\* The instance's row_count (None as 0) was the index's count when p's
\* call began, and the count query of the call saw the index as it was
\* then with the call's own documents added.
FreshAndAlone(p) ==
    /\ OrZero(loc[p].old_row_count) = NumFound(h_idx[p])
    /\ h_seen[p] = IndexAdd(h_idx[p], loc[p].solr_rows)

\* What C9 says of an add_row that saves: one more row and "1 row added"
\* for an id that was not in the index, the same row_count and
\* "1 row updated" for one that was.
AddRowAsClaimed(p) ==
    IF KeysWritten(p) \cap DOMAIN h_idx[p] = {}
    THEN /\ db'.row_count = Some(OrZero(loc[p].old_row_count) + 1)
         /\ db'.last_modification = Some("1 row added")
    ELSE /\ db'.row_count = loc[p].old_row_count
         /\ db'.last_modification = Some("1 row updated")

\* C9: add_row with an external id that is not yet in the index increases
\* row_count by exactly 1 and sets last_modification to "1 row added";
\* with an external id that is already in the index it leaves row_count
\* unchanged and sets last_modification to "1 row updated".
C9_AddRowClassifies ==
    [][\A p \in Procs :
          (RowCallSaves(p, "add_row") /\ ExternalIdGiven(p))
              => AddRowAsClaimed(p)]_vars

\* C9 as amended: the same, for an add_row called on an instance whose
\* row_count (None as 0) is the index's count, with no other process
\* changing the index between the call's write and its count query.
C9_FreshAddRowClassifies ==
    [][\A p \in Procs :
          (RowCallSaves(p, "add_row") /\ ExternalIdGiven(p)
                                      /\ FreshAndAlone(p))
              => AddRowAsClaimed(p)]_vars

\* An add_row, on a copy that is up to date, of an id the other process
\* has added with different data: it is about to save "1 row updated" and
\* an unchanged row_count of 1.
C9_Witness ==
    \E p \in Procs :
        /\ op[p] = "add_row" /\ pc[p] = "row_save"
        /\ ExternalIdGiven(p)
        /\ FreshAndAlone(p)
        /\ calls[p] = 1
        /\ \E k \in KeysWritten(p) :
              k \in DOMAIN h_idx[p] /\ h_idx[p][k] # Val(loc[p].data)
        /\ mem[p].row_count = Some(1)
        /\ mem[p].last_modification = Some("1 row updated")

\* The batch's ids that were not in the index when p's call began.
NewKeys(p) == KeysWritten(p) \ DOMAIN h_idx[p]

\* The batch's ids that were in the index when p's call began.
KnownKeys(p) == KeysWritten(p) \cap DOMAIN h_idx[p]

\* An add_many_rows that saves adds a to row_count and reports a rows
\* added, u updated, in the three forms of the message.
AddManyRowsReports(p, a, u) ==
    /\ db'.row_count = Some(OrZero(loc[p].old_row_count) + a)
    /\ db'.last_modification =
          Some(IF a > 0 /\ u > 0
               THEN ToString(a) \o " rows added and " \o ToString(u)
                        \o " updated"
               ELSE IF a > 0 THEN ToString(a) \o " rows added"
               ELSE ToString(u) \o " rows updated")

\* C10: add_many_rows with a batch containing a external ids not yet in
\* the index and u external ids already in the index increases row_count
\* by exactly a and sets last_modification to "<a> rows added and <u>
\* updated" when a>0 and u>0, to "<a> rows added" when u=0 and a>0, and to
\* "<u> rows updated" when a=0.
C10_BatchClassifies ==
    [][\A p \in Procs :
          (RowCallSaves(p, "add_many_rows") /\ ExternalIdsGiven(p))
              => AddManyRowsReports(p, Cardinality(NewKeys(p)),
                                    Cardinality(KnownKeys(p)))]_vars

\* C10 as amended: for an add_many_rows called on an instance whose
\* row_count (None as 0) is the index's count, with no other process
\* changing the index between the call's write and its count query, a is
\* the number of distinct ids of the batch not yet in the index and u the
\* number of the batch's other rows (their id is in the index already, or
\* repeats that of another row of the batch).
C10_FreshBatchClassifies ==
    [][\A p \in Procs :
          (RowCallSaves(p, "add_many_rows") /\ ExternalIdsGiven(p)
                                            /\ FreshAndAlone(p))
              => AddManyRowsReports(p, Cardinality(NewKeys(p)),
                                    Len(loc[p].solr_rows)
                                        - Cardinality(NewKeys(p)))]_vars

\* An add_many_rows, on a copy that is up to date, of a batch with one id
\* the other process has added and one that is new: it is about to save
\* a row_count of 2 and "1 rows added and 1 updated".
C10_Witness ==
    \E p \in Procs :
        /\ op[p] = "add_many_rows" /\ pc[p] = "row_save"
        /\ ExternalIdsGiven(p)
        /\ FreshAndAlone(p)
        /\ calls[p] = 1
        /\ Cardinality(NewKeys(p)) = 1
        /\ Cardinality(KnownKeys(p)) = 1
        /\ mem[p].row_count = Some(2)
        /\ mem[p].last_modification = Some("1 rows added and 1 updated")


\* Process p begins delete_all_rows in this step (its delete reaches the
\* index).
DeleteAllRowsDeletes(p) == pc[p] = "idle" /\ pc'[p] = "delete_all_save"

\* Process p ends a delete_all_rows on an instance whose row_count is a
\* number in this step.
DeleteAllRowsEnds(p) ==
    pc[p] = "delete_all_save" /\ pc'[p] = "idle" /\ ~IsNone(mem[p].row_count)

\* C11: delete_all_rows on a dataset with row_count = n removes every
\* index document of the dataset, sets the persisted row_count to 0 and
\* last_modification to "All <n> rows deleted", and sets last_modified
\* and last_modified_by (the calling user) as the other row-level
\* mutations do.
C11_DeleteAllRowsAudited ==
    [][\A p \in Procs :
          /\ DeleteAllRowsDeletes(p) => idx' = EmptyIndex
          /\ DeleteAllRowsEnds(p) =>
                /\ db'.row_count = Some(0)
                /\ db'.last_modification =
                      Some("All " \o ToString(Val(mem[p].row_count))
                               \o " rows deleted")
                /\ db'.last_modified = Some(clock')
                /\ db'.last_modified_by = Some(UserOf(p))]_vars

\* All that C11 says but the user: it holds, so the user is what fails.
C11_ButForTheUser ==
    [][\A p \in Procs :
          /\ DeleteAllRowsDeletes(p) => idx' = EmptyIndex
          /\ DeleteAllRowsEnds(p) =>
                /\ db'.row_count = Some(0)
                /\ db'.last_modification =
                      Some("All " \o ToString(Val(mem[p].row_count))
                               \o " rows deleted")
                /\ db'.last_modified = Some(clock')]_vars


(* ------------------------- deleting the dataset ----------------------- *)
\* The rows an import task writes for its upload.
MaxImportRows == 2

\* The calls of the one caller in the specification of deletion.
MaxDeleteCalls == 3

\* The dispatched tasks that have not stopped, and the imports among them.
Running == {t \in dispatched : t.task_id \notin finished}

RunningImports == {t \in Running : ~IsNone(t.upload)}

\* The rows import task t has written so far.
Written(t) == IF t.task_id \in DOMAIN written THEN written[t.task_id] ELSE 0

\* A slip: the current task is not asked to abort.
AbortNotRequested(m, asked) == asked

\* "if self.current_task: self.current_task.request_abort()" in
\* Dataset.delete: the abort requests there are afterwards.
AbortRequested(m, asked) ==
    IF IsNone(m.current_task) THEN asked
    ELSE asked \cup {Val(m.current_task)}

\* Dataset.delete up to the deletion of the record.
DeleteBegin(p, limit) ==
    /\ BeginCall(p, limit)
    /\ ~deleted
    /\ aborts' = AbortRequested(mem[p], aborts)
    /\ pc' = [pc EXCEPT ![p] = "delete_record"]
    /\ op' = [op EXCEPT ![p] = "delete"]
    /\ res' = [res EXCEPT ![p] = "none"]
    /\ UNCHANGED <<db, mem, loc, clock, tasks, dispatched, idx, h_idx, h_seen,
                   h_probed, deleted, catalog, purges, finished, written>>

\* super(Dataset, self).delete(): the record is gone; post_delete follows.
DeleteRecord(p) ==
    /\ pc[p] = "delete_record"
    /\ deleted' = TRUE
    /\ pc' = [pc EXCEPT ![p] = "purge_dispatch"]
    /\ UNCHANGED <<db, mem, op, loc, res, clock, tasks, dispatched, idx, calls,
                   h_idx, h_seen, h_probed, catalog, aborts, purges, finished,
                   written>>

\* on_dataset_delete: PurgeDataTask.apply_async(args=[dataset.slug]).
OnDeletePurgeQueued(p) ==
    /\ pc[p] = "purge_dispatch"
    /\ purges' = purges + 1
    /\ pc' = [pc EXCEPT ![p] = "catalog_delete"]
    /\ UNCHANGED <<db, mem, op, loc, res, clock, tasks, dispatched, idx, calls,
                   h_idx, h_seen, h_probed, deleted, catalog, aborts, finished,
                   written>>

\* on_dataset_delete: solr.delete(settings.SOLR_DATASETS_CORE, 'slug:...');
\* the handler and with it Dataset.delete return.
OnDeleteCatalogPurged(p) ==
    /\ pc[p] = "catalog_delete"
    /\ catalog' = FALSE
    /\ Finish(p, "deleted")
    /\ UNCHANGED <<db, mem, clock, tasks, dispatched, idx, calls, h_idx,
                   h_seen, h_probed, deleted, aborts, purges, finished,
                   written>>

\* A worker runs a queued PurgeDataTask: the documents of the dataset are
\* deleted from the data core.
PurgeDataRuns ==
    /\ purges > 0
    /\ purges' = purges - 1
    /\ idx' = IndexDeleteAll(idx)
    /\ UNCHANGED <<db, mem, pc, op, loc, res, clock, tasks, dispatched, calls,
                   h_idx, h_seen, h_probed, deleted, catalog, aborts, finished,
                   written>>

\* A running import task writes the next row of its upload to the data
\* core.
ImportTaskWrites ==
    \E t \in RunningImports :
        /\ Written(t) < MaxImportRows
        /\ idx' = IndexUpsert(idx,
                      MakeDataRow(Val(t.upload), NoneV,
                                  GeneratedKey(t.task_id, Written(t) + 1)))
        /\ written' = (t.task_id :> Written(t) + 1) @@ written
        /\ UNCHANGED <<db, mem, pc, op, loc, res, clock, tasks, dispatched,
                       calls, h_idx, h_seen, h_probed, deleted, catalog,
                       aborts, purges, finished>>

\* A running task stops: it is done, it has failed, or it honours an abort
\* request.  It unlocks the dataset if the record is still there.
TaskStops ==
    \E t \in Running :
        /\ finished' = finished \cup {t.task_id}
        /\ db' = IF deleted THEN db ELSE UnlockedInstance(db, clock)
        /\ UNCHANGED <<mem, pc, op, loc, res, clock, tasks, dispatched, idx,
                       calls, h_idx, h_seen, h_probed, deleted, catalog,
                       aborts, purges, written>>

\* One caller imports into the dataset and deletes it, while the workers
\* of the task queue run the tasks dispatched.
NextDelete ==
    \/ ~deleted /\ Load(Caller)
    \/ ~deleted /\ ImportBegin(Caller, SharedUploads, MaxDeleteCalls)
    \/ LockWrite(Caller)
    \/ LockCheck(Caller)
    \/ ImportBody(Caller)
    \/ OpSave(Caller)
    \/ OpDispatch(Caller)
    \/ DeleteBegin(Caller, MaxDeleteCalls)
    \/ DeleteRecord(Caller)
    \/ OnDeletePurgeQueued(Caller)
    \/ OnDeleteCatalogPurged(Caller)
    \/ PurgeDataRuns
    \/ ImportTaskWrites
    \/ TaskStops

SpecDelete == Init /\ [][NextDelete]_vars


\* The step of Dataset.delete that deletes the record, and its return.
RecordDeleted == ~deleted /\ deleted'

DeleteReturns(p) == pc[p] = "catalog_delete" /\ pc'[p] = "idle"

\* The instance being deleted has a current task.
HasCurrentTask(p) == ~IsNone(mem[p].current_task)

ColumnsButIndexing(m) ==
    [i \in 1..Len(Val(m.column_schema)) |->
        [name |-> Val(m.column_schema)[i].name,
         min |-> Val(m.column_schema)[i].min,
         max |-> Val(m.column_schema)[i].max]]

\* The step is one of an import_data, reindex_data or export_data call.
ByGuardedOperation ==
    \E p \in Procs :
        /\ op[p] \in {"import_data", "reindex_data", "export_data"}
        /\ pc'[p] # pc[p]

\* C13: once the persisted column_schema is non-empty, the ordered
\* sequence of its column names never changes under import_data,
\* reindex_data and export_data calls, successful or failed; nothing but
\* the indexed flag, type and indexed_name of a column changes.
C13_NamesNeverChange ==
    [][(SchemaSet(db) /\ ByGuardedOperation) =>
          /\ SchemaSet(db')
          /\ SchemaNames(db') = SchemaNames(db)
          /\ ColumnsButIndexing(db') = ColumnsButIndexing(db)]_vars


(* --------------------- the hand-over to the task queue ---------------- *)
\* A guarded operation of p returns successfully in this step.
ReturnsDispatched(p) ==
    pc[p] = "op_dispatch" /\ pc'[p] = "idle" /\ res'[p] = "ok"

\* p comes to the point of dispatching in this step.
ReachesDispatch(p) == pc[p] # "op_dispatch" /\ pc'[p] = "op_dispatch"

\* C14: when import_data, reindex_data or export_data returns
\* successfully, exactly one task has been dispatched; the dispatch comes
\* only after the record has been persisted with locked = true and
\* current_task the task-status record whose id the dispatched task
\* carries; and the persisted record is still locked on return.
C14_DispatchAfterLockedSave ==
    [][\A p \in Procs :
          /\ ReachesDispatch(p) =>
                /\ pc[p] = "op_save"
                /\ db'.locked
                /\ db'.current_task = mem'[p].current_task
                /\ \E s \in tasks : Some(s.id) = db'.current_task
                /\ \A t \in dispatched : Some(t.task_id) # db'.current_task
                /\ dispatched' = dispatched
          /\ ReturnsDispatched(p) =>
                /\ Cardinality(dispatched' \ dispatched) = 1
                /\ dispatched \subseteq dispatched'
                /\ \A t \in dispatched' \ dispatched :
                        Some(t.task_id) = mem[p].current_task
                /\ db'.locked]_vars

\* An import_data has returned successfully: its task is dispatched and
\* the record, locked, points at it.
C14_Witness ==
    \E p \in Procs :
        /\ res[p] = "ok" /\ pc[p] = "idle"
        /\ db.locked
        /\ \E t \in dispatched :
              /\ Some(t.task_id) = db.current_task
              /\ ~IsNone(t.upload)


(* ------------------------- reindex by position ------------------------ *)
\* Position i is covered by the sequence given as arg.
Covers(arg, i) == ~IsNone(arg) /\ i <= Len(Val(arg))

\* The save of a reindex_data call of p that goes on to dispatch.
ReindexSaves(p) ==
    op[p] = "reindex_data" /\ pc[p] = "op_save" /\ pc'[p] = "op_dispatch"

\* C15: reindex_data applies typed_columns and column_types by position:
\* at a position covered by a given sequence the indexed flag (the type)
\* becomes the given value, at a position not covered (sequence shorter
\* than the schema, not given or empty) the flag and the type stay; the
\* column names are never changed.
C15_ReindexByPosition ==
    [][\A p \in Procs : ReindexSaves(p) =>
          LET old == Val(db.column_schema)
              new == Val(db'.column_schema)
              tc == loc[p].typed_columns
              ct == loc[p].column_types
          IN  /\ ~IsNone(db.column_schema) /\ ~IsNone(db'.column_schema)
              /\ Len(new) = Len(old)
              /\ \A i \in 1..Len(old) :
                    /\ new[i].name = old[i].name
                    /\ new[i].indexed = IF Covers(tc, i) THEN Val(tc)[i]
                                        ELSE old[i].indexed
                    /\ new[i].type = IF Covers(ct, i) THEN Val(ct)[i]
                                     ELSE old[i].type]_vars

\* A reindex_data with typed_columns (true) and column_types (unicode) on
\* a schema of two columns has saved: the first column is indexed and of
\* the given type, the second is as it was.
C15_Witness ==
    \E p \in Procs :
        /\ op[p] = "reindex_data" /\ pc[p] = "op_dispatch"
        /\ loc[p].typed_columns = Some(<<TRUE>>)
        /\ loc[p].column_types = Some(<<TUni>>)
        /\ Len(Val(db.column_schema)) = 2
        /\ Val(db.column_schema)[1].indexed
        /\ Val(db.column_schema)[1].type = TUni
        /\ ~Val(db.column_schema)[2].indexed


(* --------------------------- the first import ------------------------- *)
\* The calls of the one caller who adds rows and imports.
MaxImportCalls == 3

\* The uploads that caller passes: two columns, or none at all.
FirstUploads ==
    { MkUpload("u_ab", <<ColA, ColB>>, <<TInt, TUni>>, FALSE, Some("csv")),
      MkUpload("u_0", << >>, << >>, FALSE, Some("csv")) }

\* One caller adds rows to the dataset and imports into it, before or
\* after.
NextImport ==
    \/ AddRowBegin(Caller, MaxImportCalls)
    \/ AddManyRowsBegin(Caller, RowBatches, MaxImportCalls)
    \/ RowCount(Caller)
    \/ RowSave(Caller)
    \/ ImportBegin(Caller, FirstUploads, MaxImportCalls)
    \/ LockWrite(Caller)
    \/ LockCheck(Caller)
    \/ ImportBody(Caller)
    \/ OpSave(Caller)
    \/ OpDispatch(Caller)
    \/ TaskStops

SpecImport == Init /\ [][NextImport]_vars

\* The save of an import_data call of p that goes on to dispatch.
ImportSaves(p) ==
    op[p] = "import_data" /\ pc[p] = "op_save" /\ pc'[p] = "op_dispatch"

\* C16: a successful import_data on a dataset with no schema sets
\* column_schema to one descriptor per upload column, in upload order,
\* with the upload's name and guessed type, indexed = false and no
\* indexed_name; sample_data is taken from the upload only if it was
\* unset, and the upload becomes initial_upload only if there was none and
\* row_count was null.
C16_FirstImportSetsSchema ==
    [][\A p \in Procs : (ImportSaves(p) /\ ~SchemaSet(db)) =>
          LET u == Val(loc[p].upload)
              new == Val(db'.column_schema)
          IN  /\ ~IsNone(db'.column_schema)
              /\ Len(new) = Len(u.columns)
              /\ \A i \in 1..Len(new) :
                    /\ new[i].name = u.columns[i]
                    /\ new[i].type = u.guessed_types[i]
                    /\ new[i].indexed = FALSE
                    /\ IsNone(new[i].indexed_name)
              /\ db'.sample_data = IF IsNone(db.sample_data)
                                   THEN Some(u.sample_data)
                                   ELSE db.sample_data
              /\ db'.initial_upload =
                    IF IsNone(db.initial_upload) /\ IsNone(db.row_count)
                    THEN Some(u.id)
                    ELSE db.initial_upload]_vars

\* An import of two columns has saved on a dataset that had rows and
\* sample data but no schema: the schema is the upload's, the sample data
\* is the earlier one and there is no initial upload.
C16_Witness ==
    /\ op[Caller] = "import_data" /\ pc[Caller] = "op_dispatch"
    /\ Val(loc[Caller].upload).id = "u_ab"
    /\ SchemaSet(db) /\ SchemaNames(db) = <<ColA, ColB>>
    /\ ~IsNone(db.row_count)
    /\ ~IsNone(db.sample_data) /\ db.sample_data # Some(<<"u_ab">>)
    /\ IsNone(db.initial_upload)


(* ---------------------------- the sample rows ------------------------- *)
\* The calls of the one caller who adds rows to a dataset with sample
\* data.
MaxSampleCalls == 2

\* A dataset to which k rows, s1 .. sk, have been added one by one: the
\* record and the documents of the index.
Sampled(k) ==
    [NewDataset EXCEPT !.sample_data = Some([i \in 1..k |-> "s" \o ToString(i)]),
                       !.row_count = Some(k)]

SampledIndex(k) ==
    IndexAdd(EmptyIndex,
             [i \in 1..k |-> MakeDataRow("s" \o ToString(i), NoneV,
                                         GeneratedKey(0, i))])

InitSample ==
    /\ \E k \in 0..SampleLimit :
          /\ db \in {Sampled(k)} \cup (IF k = 0 THEN {NewDataset} ELSE {})
          /\ idx = SampledIndex(k)
    /\ mem = [p \in Procs |-> db]
    /\ pc = [p \in Procs |-> "idle"]
    /\ op = [p \in Procs |-> "none"]
    /\ loc = [p \in Procs |-> NoLocals]
    /\ res = [p \in Procs |-> "none"]
    /\ clock = 0
    /\ tasks = {}
    /\ dispatched = {}
    /\ calls = [p \in Procs |-> 0]
    /\ h_idx = [p \in Procs |-> << >>]
    /\ h_seen = [p \in Procs |-> << >>]
    /\ h_probed = FALSE
    /\ deleted = FALSE
    /\ catalog = TRUE
    /\ aborts = {}
    /\ purges = 0
    /\ finished = {}
    /\ written = << >>

NextSample ==
    \/ AddRowBegin(Caller, MaxSampleCalls)
    \/ AddManyRowsBegin(Caller, RowBatches, MaxSampleCalls)
    \/ RowCount(Caller)
    \/ RowSave(Caller)

SpecSample == InitSample /\ [][NextSample]_vars

\* Sample s is kept, in place, at the head of sample t.
KeptIn(s, t) == Len(s) <= Len(t) /\ SubSeq(t, 1, Len(s)) = s

\* C17: under add_row and add_many_rows calls on a dataset whose
\* sample_data starts empty or with at most 5 rows, sample_data never
\* holds more than 5 rows, and the rows already in it are never removed
\* or reordered.
C17_SampleKept ==
    [][/\ Len(SampleOf(db')) <= SampleLimit
       /\ KeptIn(SampleOf(db), SampleOf(db'))
       /\ \A p \in Procs :
             /\ Len(SampleOf(mem'[p])) <= SampleLimit
             /\ KeptIn(SampleOf(mem[p]), SampleOf(mem'[p]))]_vars

\* A batch of three rows has been added to a dataset with four sample
\* rows: the sample holds five rows, the four and the first of the batch.
C17_Witness ==
    /\ pc[Caller] = "idle" /\ res[Caller] = "ok"
    /\ db.row_count = Some(7)
    /\ Len(SampleOf(db)) = SampleLimit
    /\ SubSeq(SampleOf(db), 1, 4) = <<"s1", "s2", "s3", "s4">>
    /\ SampleOf(db)[SampleLimit] \in RowData


(* ------------------------ what lock() may write ----------------------- *)
\* Process p makes the write of lock() in this step.
LockSaves(p) == pc[p] = "lock_write" /\ pc'[p] = "lock_check"

\* A record without its lock fields.
ButLockFields(d) == [d EXCEPT !.locked = FALSE, !.locked_at = NoneV]

\* C18: lock() and unlock() change only the lock fields (locked,
\* locked_at) of the persisted record; what another process has persisted
\* since the caller loaded its copy (row_count, column_schema, sample_data,
\* current_task) is not overwritten with the caller's older values.
C18_OnlyLockFieldsWritten ==
    [][\A p \in Procs :
          (LockSaves(p) \/ Unlocks(p)) =>
              ButLockFields(db') = ButLockFields(db)]_vars


(* ----------------------- what a failure persists ---------------------- *)
\* The fields of a record that import_data and reindex_data set.
OperationFields(d) ==
    [column_schema |-> d.column_schema, sample_data |-> d.sample_data,
     initial_upload |-> d.initial_upload, current_task |-> d.current_task]

\* An import_data or reindex_data of p fails in this step, after its
\* lock() had returned.
OperationFails(p) ==
    RaisesAfterLock(p) /\ op[p] \in {"import_data", "reindex_data"}

\* The task the record points at has been dispatched.
CurrentTaskDispatched(d) ==
    IsNone(d.current_task) \/
        \E t \in dispatched' : Some(t.task_id) = d.current_task

CountsInRange(p) ==
    \E a \in 0..Len(loc[p].solr_rows) :
        AddManyRowsReports(p, a, Len(loc[p].solr_rows) - a)

\* The add_row of p that saves reports "1 row added" only if the count of
\* the index it has seen is greater than the count when the call began.
AddedOnlyIfGrown(p) ==
    db'.last_modification = Some("1 row added") =>
        NumFound(h_seen[p]) > NumFound(h_idx[p])

\* C20: in add_many_rows the computed number of added rows lies between 0
\* and the batch size and the computed number of updated rows is never
\* negative, and add_row reports "1 row added" only when the index count
\* grew; in every reachable state, also when the instance's row_count is
\* null or differs from the index count and when the batch repeats an id.
C20_CountsInRange ==
    [][\A p \in Procs :
          /\ RowCallSaves(p, "add_many_rows") => CountsInRange(p)
          /\ RowCallSaves(p, "add_row") => AddedOnlyIfGrown(p)]_vars

\* C20, amended: the same, for a call on an instance whose row_count (None
\* as 0) is the index's count when the call begins, with no other process
\* changing the index between the call's write and its count query.
C20_FreshCountsInRange ==
    [][\A p \in Procs :
          /\ (RowCallSaves(p, "add_many_rows") /\ FreshAndAlone(p))
                => CountsInRange(p)
          /\ (RowCallSaves(p, "add_row") /\ FreshAndAlone(p))
                => AddedOnlyIfGrown(p)]_vars

\* An add_many_rows of a batch that gives the same new id twice, on a copy
\* that is up to date, is about to save one row added and one updated.
C20_Witness ==
    \E p \in Procs :
        /\ op[p] = "add_many_rows" /\ pc[p] = "row_save"
        /\ FreshAndAlone(p)
        /\ Len(loc[p].solr_rows) = 2
        /\ Cardinality(KeysWritten(p)) = 1
        /\ KeysWritten(p) \cap DOMAIN h_idx[p] = {}
        /\ mem[p].row_count = Some(OrZero(loc[p].old_row_count) + 1)
        /\ mem[p].last_modification = Some("1 rows added and 1 updated")

=========================================================================
